---- MODULE Spec2Model ----
\* Huffman code construction and encoding (src/src/huffman_tree/*.rs).
\* Characters are modelled by their code points (small naturals), Bits by
\* sequences of BOOLEAN (FALSE = '0', TRUE = '1'), Option<T> by a sequence of
\* length zero (None) or one (Some), Vec indices are 0-based as in the source.
EXTENDS Integers, Sequences, FiniteSets, TLC

\* ---------------------------------------------------------------- bounds
MaxLen == 5         \* longest example text
MaxInput == 2       \* longest string handed to encode that is not made from the text

\* The alphabet of the model: four code points, so that trees with four
\* leaves (the smallest whose shape depends on the order of ties) occur and
\* a text can leave out code points below and above its largest one.
Chars == {1, 2, 3, 4}

RECURSIVE Strings(_)
Strings(n) ==
  IF n = 0 THEN {<<>>}
  ELSE LET shorter == Strings(n - 1)
       IN shorter \cup {Append(s, c) : s \in {t \in shorter : Len(t) = n - 1}, c \in Chars}

\* ---------------------------------------------------------------- Option
None == <<>>
Some(x) == <<x>>
Unwrap(o) == o[1]

\* ---------------------------------------------------------------- Bits
Bits_new == <<>>

add(self, bit) == Append(self, bit)

append_prepending(self, other) == other \o self

RECURSIVE append(_, _)
append(self, other) ==
  IF other = <<>> THEN self
  ELSE append(add(self, Head(other)), Tail(other))

\* ---------------------------------------------------------------- Node
new_parent_swapped(left, right) ==
  [left_child |-> Some(right), right_child |-> Some(left), value |-> None]

new_parent(left, right) ==
  [left_child |-> Some(left), right_child |-> Some(right), value |-> None]

new_leaf(character) ==
  [left_child |-> None, right_child |-> None, value |-> Some(character)]

\* ---------------------------------------------------------------- HashMap
EmptyMap == [x \in {} |-> 0]

map_insert(m, k, v) == [x \in (DOMAIN m) \cup {k} |-> IF x = k THEN v ELSE m[x]]

\* ---------------------------------------------------------------- Vec
vec_insert(v, pos, e) == SubSeq(v, 1, pos) \o <<e>> \o SubSeq(v, pos + 1, Len(v))

\* ------------------------------------------------ get_letter_frequencies
RECURSIVE count_letters(_, _)
count_letters(string, frequencies) ==
  IF string = <<>> THEN frequencies
  ELSE LET character == Head(string)
       IN count_letters(Tail(string),
            IF character \in DOMAIN frequencies
            THEN [frequencies EXCEPT ![character] = @ + 1]
            ELSE map_insert(frequencies, character, 1))

get_letter_frequencies(string) == count_letters(string, EmptyMap)

\* ---------------------------------------------------------------- init_table
\* The map's iteration order and sort_unstable_by_key's order among equal
\* keys are unspecified: every ordering that is ascending by count is possible.
RECURSIVE SortedOrders(_, _)
SortedOrders(S, key) ==
  IF S = {} THEN {<<>>}
  ELSE UNION {{<<c>> \o rest : rest \in SortedOrders(S \ {c}, key)} :
              c \in {d \in S : \A e \in S : key[d] <= key[e]}}

RECURSIVE AnyOrders(_)
AnyOrders(S) ==
  IF S = {} THEN {<<>>}
  ELSE UNION {{<<c>> \o rest : rest \in AnyOrders(S \ {c})} : c \in S}

init_table_unsorted(frequencies) ==
  {[i \in 1..Len(o) |-> <<frequencies[o[i]], new_leaf(o[i])>>] :
     o \in AnyOrders(DOMAIN frequencies)}

init_table(frequencies) ==
  {[i \in 1..Len(o) |-> <<frequencies[o[i]], new_leaf(o[i])>>] :
     o \in SortedOrders(DOMAIN frequencies, frequencies)}

\* ---------------------------------------------------------------- insert_table_entry
\* slice::binary_search_by_key: Ok(pos) for any one matching position,
\* otherwise Err(pos) with pos the insertion point that keeps the order.
binary_search_by_key(table, num) ==
  LET matches == {i \in 1..Len(table) : table[i][1] = num}
  IN IF matches # {}
     THEN {[found |-> TRUE, pos |-> i - 1] : i \in matches}
     ELSE {[found |-> FALSE,
            pos |-> Cardinality({i \in 1..Len(table) : table[i][1] < num})]}

insert_table_entry_front(table, num, node) ==
  {vec_insert(table, 0, <<num, node>>)}

insert_table_entry_after(table, num, node) ==
  {IF position.found
   THEN vec_insert(table, position.pos + 1, <<num, node>>)
   ELSE vec_insert(table, position.pos, <<num, node>>) :
     position \in binary_search_by_key(table, num)}

insert_table_entry(table, num, node) ==
  {IF position.found
   THEN vec_insert(table, position.pos, <<num, node>>)
   ELSE vec_insert(table, position.pos, <<num, node>>) :
     position \in binary_search_by_key(table, num)}

\* ---------------------------------------------------------------- build_tree
InsufficientNodes == "Attempt to build tree without two nodes to combine"

build_tree_first_last(table) ==
  IF Len(table) < 2 THEN {[ok |-> FALSE, error |-> InsufficientNodes, table |-> table]}
  ELSE LET n1 == table[1][1]
           left == table[1][2]
           n2 == table[Len(table)][1]
           right == table[Len(table)][2]
           rest == SubSeq(table, 2, Len(table) - 1)
       IN {[ok |-> TRUE, error |-> "", table |-> t] :
             t \in insert_table_entry(rest, n1 + n2, new_parent(left, right))}

build_tree_double_first(table) ==
  IF Len(table) < 2 THEN {[ok |-> FALSE, error |-> InsufficientNodes, table |-> table]}
  ELSE LET n1 == table[1][1]
           left == table[1][2]
           right == table[2][2]
           rest == Tail(Tail(table))
       IN {[ok |-> TRUE, error |-> "", table |-> t] :
             t \in insert_table_entry(rest, n1 + n1, new_parent(left, right))}

build_tree(table) ==
  IF Len(table) < 2 THEN {[ok |-> FALSE, error |-> InsufficientNodes, table |-> table]}
  ELSE LET n1 == table[1][1]
           left == table[1][2]
           after1 == Tail(table)
           n2 == after1[1][1]
           right == after1[1][2]
           after2 == Tail(after1)
           num == n1 + n2
           node == new_parent(left, right)
       IN {[ok |-> TRUE, error |-> "", table |-> t] :
             t \in insert_table_entry(after2, num, node)}

\* ---------------------------------------------------------------- traverse
RECURSIVE traverse(_, _, _)
RECURSIVE traverse_child(_, _, _, _)

traverse_child_same_bit(child, table, code, new_bit) ==
  IF child # None
  THEN traverse(Unwrap(child), table, add(code, FALSE))
  ELSE table

traverse_child_flipped(child, table, code, new_bit) ==
  IF child # None
  THEN traverse(Unwrap(child), table, add(code, ~new_bit))
  ELSE table

traverse_child(child, table, code, new_bit) ==
  IF child # None
  THEN traverse(Unwrap(child), table, add(code, new_bit))
  ELSE table

traverse_leaf_bit(subtree, table, code) ==
  IF subtree.value # None
  THEN map_insert(table, Unwrap(subtree.value), add(code, FALSE))
  ELSE traverse_child(subtree.right_child,
         traverse_child(subtree.left_child, table, code, FALSE), code, TRUE)

traverse(subtree, table, code) ==
  IF subtree.value # None
  THEN map_insert(table, Unwrap(subtree.value), code)
  ELSE traverse_child(subtree.right_child,
         traverse_child(subtree.left_child, table, code, FALSE), code, TRUE)

\* ---------------------------------------------------------------- convert_table
MaxOf(S) == CHOOSE m \in S : \A x \in S : x <= m

\* Only called with a non-empty map (the tree always has a leaf); element
\* i + 1 of the result is slot i of the Vec.
convert_table(table) ==
  LET max_char == MaxOf(DOMAIN table)
  IN [i \in 1..(max_char + 1) |->
        IF (i - 1) \in DOMAIN table THEN Some(table[i - 1]) ELSE None]

\* ---------------------------------------------------------------- encode_character
error_message == "Character not found in lookup table"

\* anyhow!(fmt) / .context(fmt): an error made of a message and the values
\* formatted into it (none at either call site).
anyhow(message, args) == [message |-> message, args |-> args]

Ok(v) == [tag |-> "Ok", value |-> v, error |-> anyhow("", <<>>)]
Err(e) == [tag |-> "Err", value |-> <<>>, error |-> e]

encode_character_default(lookup, character) ==
  LET index == character
  IN IF index < Len(lookup)
     THEN IF lookup[index + 1] # None
          THEN Ok(Unwrap(lookup[index + 1]))
          ELSE Err(anyhow(error_message, <<>>))
     ELSE Ok(Bits_new)

encode_character(lookup, character) ==
  LET index == character
  IN IF index < Len(lookup)
     THEN IF lookup[index + 1] # None
          THEN Ok(Unwrap(lookup[index + 1]))
          ELSE Err(anyhow(error_message, <<>>))
     ELSE Err(anyhow(error_message, <<>>))

\* ---------------------------------------------------------------- state
VARIABLES
  example_text,    \* argument of HuffmanTree::new
  pc,              \* "start", "loop", "built", "returned", "failed", "panicked"
  table,           \* new: the node table (working set)
  steps,           \* new: number of build_tree calls made by the loop
  tree,            \* new: Option of the root taken from table[0]
  lookup_table,    \* HuffmanTree.lookup_table
  new_result,      \* "none", "Ok", "Err", "panic"
  string,          \* argument of encode
  idx,             \* encode: 0-based position the loop stopped at
  encoded_string,  \* encode: the accumulator when the loop stopped
  encode_result    \* None or Some(Result<Bits>)

vars == <<example_text, pc, table, steps, tree, lookup_table, new_result,
          string, idx, encoded_string, encode_result>>

newVars == <<table, steps, tree, lookup_table, new_result>>
encodeVars == <<string, idx, encoded_string, encode_result>>

\* Before new is called: the caller has not yet put a character in the text
Init ==
  /\ example_text = <<>>
  /\ pc = "start"
  /\ table = <<>>
  /\ steps = 0
  /\ tree = None
  /\ lookup_table = <<>>
  /\ new_result = "none"
  /\ string = <<>>
  /\ idx = 0
  /\ encoded_string = Bits_new
  /\ encode_result = None

\* The caller makes the text, one character at a time, up to MaxLen
Extend ==
  /\ pc = "start"
  /\ Len(example_text) < MaxLen
  /\ \E c \in Chars : example_text' = Append(example_text, c)
  /\ UNCHANGED <<pc, newVars, encodeVars>>

\* new, lines 15-17: called with the text made so far
NewInit ==
  /\ pc = "start"
  /\ table' \in init_table(get_letter_frequencies(example_text))
  /\ pc' = "loop"
  /\ UNCHANGED <<example_text, steps, tree, lookup_table, new_result, encodeVars>>

\* new, lines 19-21: one iteration of the merge loop
NewLoop ==
  /\ pc = "loop"
  /\ Len(table) > 1
  /\ \E r \in build_tree(table) :
       IF r.ok
       THEN /\ table' = r.table
            /\ steps' = steps + 1
            /\ UNCHANGED <<pc, new_result>>
       ELSE /\ pc' = "failed"
            /\ new_result' = "Err"
            /\ UNCHANGED <<table, steps>>
  /\ UNCHANGED <<example_text, tree, lookup_table, encodeVars>>

\* new, lines 23-28: table[0] panics on an empty table
NewFinish ==
  /\ pc = "loop"
  /\ ~(Len(table) > 1)
  /\ IF Len(table) = 0
     THEN /\ pc' = "panicked"
          /\ new_result' = "panic"
          /\ UNCHANGED <<tree, lookup_table>>
     ELSE /\ tree' = Some(table[1][2])
          /\ lookup_table' = convert_table(traverse(table[1][2], EmptyMap, Bits_new))
          /\ new_result' = "Ok"
          /\ pc' = "built"
  /\ UNCHANGED <<example_text, table, steps, encodeVars>>

\* encode, lines 78-85: the loop over string.chars(); `?` returns the error
\* of the first failing encode_character and drops the accumulator.
RECURSIVE encode_loop(_, _, _, _)
encode_loop(lookup, s, i, acc) ==
  IF i >= Len(s)
  THEN [result |-> Ok(acc), idx |-> i, encoded_string |-> acc]
  ELSE LET encoded_character == encode_character(lookup, s[i + 1])
       IN IF encoded_character.tag = "Err"
          THEN [result |-> Err(encoded_character.error), idx |-> i, encoded_string |-> acc]
          ELSE encode_loop(lookup, s, i + 1, append(acc, encoded_character.value))

encode(lookup, s) == encode_loop(lookup, s, 0, Bits_new)

\* Inputs tried: the text itself, the text with one more character after or
\* before it, and every string of at most MaxInput characters (the empty one
\* included).
EncodeInputs ==
  {example_text} \cup {Append(example_text, c) : c \in Chars}
    \cup {<<c>> \o example_text : c \in Chars} \cup Strings(MaxInput)

\* encode, lines 77-86
Encode ==
  /\ pc = "built"
  /\ \E s \in EncodeInputs :
       LET r == encode(lookup_table, s)
       IN /\ string' = s
          /\ idx' = r.idx
          /\ encoded_string' = r.encoded_string
          /\ encode_result' = Some(r.result)
  /\ pc' = "returned"
  /\ UNCHANGED <<example_text, newVars>>

Next ==
  \/ Extend
  \/ NewInit
  \/ NewLoop
  \/ NewFinish
  \/ Encode

Spec == Init /\ [][Next]_vars

\* ================================================================ properties
\* The characters of the text and their occurrence counts, read off the text
Distinct == {example_text[i] : i \in DOMAIN example_text}
Count(c) == Cardinality({i \in DOMAIN example_text : example_text[i] = c})
Freq == [c \in Distinct |-> Count(c)]
JustBuilt == pc = "built"
NewDone == pc \notin {"start", "loop"}
Built == new_result = "Ok"
Returned == pc = "returned"
HasCode(c) == c < Len(lookup_table) /\ lookup_table[c + 1] # None
CodeOf(c) == Unwrap(lookup_table[c + 1])
IsPrefix(p, q) == Len(p) <= Len(q) /\ SubSeq(q, 1, Len(p)) = p
Result == Unwrap(encode_result)
CharsOf(s) == {s[i] : i \in DOMAIN s}

\* C1: for a text with at least two distinct characters the table built by
\* new is prefix-free: no character's code is a prefix of another
\* character's code, so the codes differ and none is empty.
C1_PrefixFree ==
  /\ (pc \in {"failed", "panicked"}) => Cardinality(Distinct) < 2
  /\ (JustBuilt /\ Cardinality(Distinct) >= 2) =>
    /\ \A c1 \in Distinct : HasCode(c1) /\ CodeOf(c1) # <<>>
    /\ \A c1 \in Distinct : \A c2 \in Distinct \ {c1} :
         /\ ~IsPrefix(CodeOf(c1), CodeOf(c2))
         /\ CodeOf(c1) # CodeOf(c2)

C1_Witness ==
  /\ JustBuilt
  /\ Cardinality(Distinct) >= 3
  /\ \E c1 \in Distinct : \E c2 \in Distinct : Len(CodeOf(c1)) < Len(CodeOf(c2))

\* Least cost sum(count * depth) over all full binary trees whose leaves are
\* the characters of S: a tree on S splits S into two non-empty parts, and
\* every leaf below the split is one level deeper.
RECURSIVE SumCount(_, _)
SumCount(S, f) ==
  IF S = {} THEN 0
  ELSE LET c == CHOOSE x \in S : TRUE IN f[c] + SumCount(S \ {c}, f)

MinOf(S) == CHOOSE m \in S : \A x \in S : m <= x

RECURSIVE MinCost(_, _)
MinCost(S, f) ==
  IF Cardinality(S) <= 1 THEN 0
  ELSE LET anchor == CHOOSE x \in S : TRUE
       IN SumCount(S, f) +
          MinOf({MinCost(A, f) + MinCost(S \ A, f) :
                   A \in {B \in SUBSET S : anchor \in B /\ B # S}})

RECURSIVE CodeCost(_, _)
CodeCost(S, f) ==
  IF S = {} THEN 0
  ELSE LET c == CHOOSE x \in S : TRUE
       IN f[c] * Len(CodeOf(c)) + CodeCost(S \ {c}, f)

\* C2: the code built by new is optimal: the sum over the text's characters
\* of count(c) * len(code(c)) equals the least such sum over all full binary
\* trees on the same characters.
C2_Optimal ==
  (JustBuilt /\ Distinct # {}) =>
    /\ \A c \in Distinct : HasCode(c)
    /\ CodeCost(Distinct, Freq) = MinCost(Distinct, Freq)

C2_Witness ==
  /\ JustBuilt
  /\ Cardinality(Distinct) >= 4
  /\ \E a \in Distinct : \E b \in Distinct : Freq[a] > Freq[b]

\* Decoder of the claim: walk the tree from the root, FALSE = left,
\* TRUE = right, emit the symbol at each leaf and restart at the root.
IsLeaf(node) == node.value # None

RECURSIVE Walk(_, _, _)
Walk(node, root, bits) ==
  IF IsLeaf(node)
  THEN IF IsLeaf(root) THEN <<>>
       ELSE <<Unwrap(node.value)>> \o Walk(root, root, bits)
  ELSE IF bits = <<>> THEN <<>>
  ELSE Walk(Unwrap(IF Head(bits) THEN node.right_child ELSE node.left_child),
            root, Tail(bits))

Decode(root, bits) == Walk(root, root, bits)

\* C3: for a text T with at least two distinct characters, new(T) succeeds,
\* encode(T) on that tree succeeds, and decoding the result by walking the
\* same tree reproduces T.
C3_RoundTrip ==
  /\ (NewDone /\ Cardinality(Distinct) >= 2) => Built
  /\ (Returned /\ string = example_text /\ Cardinality(Distinct) >= 2) =>
       /\ Result.tag = "Ok"
       /\ Decode(Unwrap(tree), Result.value) = example_text

C3_Witness ==
  /\ Returned
  /\ string = example_text
  /\ Cardinality(Distinct) >= 3
  /\ Len(example_text) >= 4
  /\ Result.tag = "Ok"

RECURSIVE ConcatCodes(_)
ConcatCodes(s) ==
  IF s = <<>> THEN <<>> ELSE CodeOf(Head(s)) \o ConcatCodes(Tail(s))

RECURSIVE SumCodeLen(_)
SumCodeLen(s) ==
  IF s = <<>> THEN 0 ELSE Len(CodeOf(Head(s))) + SumCodeLen(Tail(s))

\* C4: when every character of the input has a code, encode returns the
\* concatenation in input order of the characters' codes; its length is the
\* sum of the code lengths, and the empty string gives Ok of the empty bits.
C4_EncodeConcat ==
  (Returned /\ \A c \in CharsOf(string) : HasCode(c)) =>
    /\ Result = Ok(ConcatCodes(string))
    /\ Len(Result.value) = SumCodeLen(string)
    /\ string = <<>> => Result = Ok(<<>>)

C4_Witness ==
  /\ Returned
  /\ Result.tag = "Ok"
  /\ Cardinality(CharsOf(string)) >= 2
  /\ \E i \in DOMAIN string : Len(CodeOf(string[i])) >= 2

\* C5: constructing a tree from the empty text is reported by new as an Err
\* value (not a panic) and produces no usable tree.
C5_EmptyTextIsErr ==
  (example_text = <<>> /\ NewDone) =>
    /\ new_result = "Err"
    /\ tree = None

Absent(s) == {i \in DOMAIN s : s[i] \notin Distinct}
FirstAbsent(s) == MinOf(Absent(s))
Names(error, c) == \E i \in DOMAIN error.args : error.args[i] = c

C7_WeightMonotone ==
  JustBuilt =>
    \A a \in Distinct : \A b \in Distinct :
      Freq[a] > Freq[b] => Len(CodeOf(a)) <= Len(CodeOf(b))

C7_Witness ==
  /\ JustBuilt
  /\ \E a \in Distinct : \E b \in Distinct : \E c \in Distinct \ {b} :
       /\ Freq[a] > Freq[b]
       /\ Freq[b] = Freq[c]
       /\ Len(CodeOf(a)) < Len(CodeOf(b))

\* C8: for a text of n >= 1 copies of one character x, new succeeds without
\* a merge, the root is the leaf of x, the code of x is empty, and encoding
\* any number of x's gives Ok of the empty bits.
C8_SingleSymbol ==
  (NewDone /\ Cardinality(Distinct) = 1) =>
    LET x == CHOOSE c \in Distinct : TRUE
    IN /\ Built
       /\ steps = 0
       /\ tree = Some(new_leaf(x))
       /\ HasCode(x)
       /\ CodeOf(x) = <<>>
       /\ (Returned /\ CharsOf(string) \subseteq {x}) =>
            /\ Result.tag = "Ok"
            /\ Len(Result.value) = 0

C8_Witness ==
  /\ Returned
  /\ Cardinality(Distinct) = 1
  /\ Len(example_text) >= 2
  /\ CharsOf(string) = Distinct
  /\ Len(string) >= 2

\* C9: the node table is ascending by weight after init_table and after
\* every build_tree step, so the first two entries have the least weights.
C9_TableSorted ==
  pc # "start" =>
    /\ \A i \in 1..(Len(table) - 1) : table[i][1] <= table[i + 1][1]
    /\ Len(table) >= 2 =>
         \A i \in 3..Len(table) : table[2][1] <= table[i][1] /\ table[1][1] <= table[2][1]

C9_Witness ==
  /\ pc = "loop"
  /\ steps >= 1
  /\ Len(table) >= 3
  /\ table[1][1] < table[3][1]
  /\ \E i \in 1..Len(table) : table[i][2].value = None /\ i > 1

RECURSIVE SumWeights(_)
SumWeights(t) == IF t = <<>> THEN 0 ELSE Head(t)[1] + SumWeights(Tail(t))

\* C10: for a text with n >= 1 distinct characters the merge loop ends after
\* exactly n - 1 build_tree steps: each step shrinks the table by one and
\* keeps the sum of the weights, a step of new is always possible inside the
\* loop, build_tree never fails there, and the one remaining entry weighs the
\* length of the text.
C10_LoopTerminates ==
  Cardinality(Distinct) >= 1 =>
    /\ new_result # "Err"
    /\ pc # "failed"
    /\ pc # "start" =>
         /\ Len(table) = Cardinality(Distinct) - steps
         /\ steps <= Cardinality(Distinct) - 1
         /\ SumWeights(table) = Len(example_text)
    /\ pc = "loop" => ENABLED (NewLoop \/ NewFinish)
    /\ NewDone =>
         /\ Built
         /\ steps = Cardinality(Distinct) - 1
         /\ Len(table) = 1
         /\ table[1][1] = Len(example_text)

C10_Witness ==
  /\ NewDone
  /\ Built
  /\ steps >= 3
  /\ table[1][1] = Len(example_text)

\* Every leaf of the tree under node with the path that leads to it from
\* node, FALSE for a step into the left child, TRUE for the right child.
RECURSIVE Paths(_, _)
Paths(node, prefix) ==
  IF IsLeaf(node) THEN {<<Unwrap(node.value), prefix>>}
  ELSE Paths(Unwrap(node.left_child), Append(prefix, FALSE))
         \cup Paths(Unwrap(node.right_child), Append(prefix, TRUE))

\* The table holds the root-to-leaf path of every leaf, one entry for each
\* character of the text and none for any other slot.
C11_TableIsPaths ==
  JustBuilt =>
    /\ \A c \in Distinct : HasCode(c)
    /\ \A i \in 1..Len(lookup_table) : lookup_table[i] # None <=> (i - 1) \in Distinct
    /\ Paths(Unwrap(tree), <<>>) = {<<c, CodeOf(c)>> : c \in Distinct}
    /\ Cardinality(Paths(Unwrap(tree), <<>>)) = Cardinality(Distinct)

\* A merge step puts into the table one internal node whose left child is
\* the entry removed first and whose right child is the entry removed second.
C11_MergeOrder ==
  (pc = "loop" /\ steps' = steps + 1) =>
    \E i \in 1..Len(table') :
      /\ table'[i][2].value = None
      /\ table'[i][2].left_child = Some(table[1][2])
      /\ table'[i][2].right_child = Some(table[2][2])

\* C11: the code table records for every leaf of the finished tree exactly
\* its root-to-leaf path, bit 0 (FALSE) for a step into a left child and bit
\* 1 (TRUE) for a step into a right child, where the left child of an
\* internal node is the first-removed entry of its merge and the right child
\* the second-removed; the table has exactly one entry for each distinct
\* character of the text and none for any other character.
C11_CodesArePaths == []C11_TableIsPaths /\ [][C11_MergeOrder]_vars

C11_Witness ==
  /\ JustBuilt
  /\ Cardinality(Distinct) >= 3
  /\ \E i \in 2..Len(lookup_table) : lookup_table[i] = None
  /\ \E c1 \in Distinct : \E c2 \in Distinct :
       /\ Len(CodeOf(c1)) < Len(CodeOf(c2))
       /\ Head(CodeOf(c1)) = TRUE

\* A merge step of the loop, the entries it leaves in place, the weight of
\* the entry it makes and the place of that entry in the new table (no node
\* occurs twice in a table: the leaves below two entries are disjoint).
MergeStep == pc = "loop" /\ steps' = steps + 1
Remaining == Tail(Tail(table))
MergedWeight == table[1][1] + table[2][1]
MergedIndex ==
  CHOOSE i \in 1..Len(table') : \A j \in 1..Len(Remaining) : Remaining[j] # table'[i]
WeightTie == \E j \in 1..Len(Remaining) : Remaining[j][1] = MergedWeight
Without(t, i) == SubSeq(t, 1, i - 1) \o SubSeq(t, i + 1, Len(t))

\* C12 as stated: the merged entry is placed after every entry of equal
\* weight that is already in the table, whose relative order is unchanged.
C12_StableTieBreak ==
  [][(MergeStep /\ WeightTie) =>
       /\ Without(table', MergedIndex) = Remaining
       /\ \A j \in 1..Len(table') :
            (j # MergedIndex /\ table'[j][1] = MergedWeight) => j < MergedIndex]_vars

\* C12 amended: when build_tree inserts a merged entry whose weight equals
\* the weight of entries already in the table, the merged entry is placed at
\* the position of one of them, that is immediately before an already-present
\* entry of equal weight (never after all of them); the relative order of the
\* already-present entries is unchanged.
C12_InsertBeforeEqual ==
  [][MergeStep =>
       /\ table'[MergedIndex][1] = MergedWeight
       /\ Without(table', MergedIndex) = Remaining
       /\ WeightTie =>
            /\ MergedIndex < Len(table')
            /\ table'[MergedIndex + 1][1] = MergedWeight]_vars

C12_Witness ==
  /\ pc = "loop"
  /\ steps = 1
  /\ Len(table) >= 3
  /\ \E i \in 1..(Len(table) - 1) :
       /\ table[i][2].value = None
       /\ table[i + 1][2].value # None
       /\ table[i + 1][1] = table[i][1]

====
